---- MODULE Spec2Model ----
(***************************************************************************)
(* The spinning colour wheel (yaowuang/spinner): the option registry kept  *)
(* by OptionForm.tsx, the spin engine and the winner history kept by       *)
(* ColorWheelPicker.tsx, and the pure helpers of utils/helpers.ts and      *)
(* utils/validation.ts.                                                    *)
(*                                                                         *)
(* Strings are sequences of one-character strings, so that trim, split and *)
(* join are computed and not assumed.  Angles are integers: every angle    *)
(* the component stores is an integer (spinAngle is a Math.floor, the      *)
(* rotation starts at 0), and for integer angles a and 1 <= n <= 21 the    *)
(* double-precision value Math.floor(a / (360 / n)) equals the exact       *)
(* floor(a * n / 360) for all 0 <= a < 5000, which is how it is computed   *)
(* here.                                                                   *)
(***************************************************************************)
EXTENDS Integers, Sequences, FiniteSets, TLC

(***************************************************************************)
(* Limits of WHEEL_CONFIG, scaled down so that the caps are reached.       *)
(***************************************************************************)
\* WHEEL_CONFIG.MAX_OPTIONS (20 in the source)
MAX_OPTIONS == 4

\* WHEEL_CONFIG.MAX_OPTION_LENGTH (50 in the source)
MAX_OPTION_LENGTH == 3

\* WHEEL_CONFIG.HISTORY_MAX_ITEMS, the literal 35 of setWinnerList (35 in the source)
HISTORY_MAX_ITEMS == 2

\* the same, where the whole component is explored
MaxSpins == 2

\* the largest option count the resolution function is tabulated for
MaxCount == 20

(***************************************************************************)
(* Program constants.                                                      *)
(***************************************************************************)
\* the 360 of sectorDeg and of the rotation arithmetic
FULL_TURN == 360

\* "Arrow is on right side": selectedRotation = rotation + 90
POINTER_OFFSET == 90

\* the delay of the hide-confetti timer
CONFETTI_DURATION_MS == 3000

minSpin == 5

maxSpin == 10

minTime == 2

maxTime == 6

\* milliseconds per second, the factor of spinDuration
MS_PER_S == 1000

(***************************************************************************)
(* JavaScript values that are not strings or integers.                     *)
(***************************************************************************)
\* null where a label is expected (selectedOption, a history entry)
Null == <<"null">>

\* a number
Num(i) == [num |-> i]

\* NaN, the value of 0 % 0
NaN == [nan |-> TRUE]

\* null where a number is expected (selectedOptionIndex before the first spin)
NullIndex == [null |-> TRUE]

(***************************************************************************)
(* String and array primitives.                                            *)
(***************************************************************************)
Min(a, b) == IF a < b THEN a ELSE b

\* Array.prototype.includes
Includes(list, x) == \E i \in 1..Len(list) : list[i] = x

\* Array.prototype.slice(0, n) and splice(0, n)'s remaining prefix
Slice(list, n) == SubSeq(list, 1, Min(n, Len(list)))

RECURSIVE TrimStart(_)
TrimStart(s) == IF s # <<>> /\ Head(s) = " " THEN TrimStart(Tail(s)) ELSE s

RECURSIVE TrimEnd(_)
TrimEnd(s) ==
    IF s # <<>> /\ s[Len(s)] = " " THEN TrimEnd(SubSeq(s, 1, Len(s) - 1)) ELSE s

\* String.prototype.trim
Trim(s) == TrimEnd(TrimStart(s))

\* s.replace(/,/g, '')
RemoveCommas(s) == SelectSeq(s, LAMBDA c : c # ",")

\* the pieces of s between commas; "" splits into one empty piece
RECURSIVE Split(_)
Split(s) ==
    IF \A i \in 1..Len(s) : s[i] # ","
    THEN <<s>>
    ELSE LET k == CHOOSE i \in 1..Len(s) :
                      s[i] = "," /\ \A j \in 1..(i - 1) : s[j] # ","
         IN  <<SubSeq(s, 1, k - 1)>> \o Split(SubSeq(s, k + 1, Len(s)))

\* Array.prototype.join(",")
RECURSIVE Join(_)
Join(list) ==
    IF list = <<>> THEN <<>>
    ELSE IF Len(list) = 1 THEN list[1]
    ELSE list[1] \o <<",">> \o Join(Tail(list))

(***************************************************************************)
(* utils/validation.ts                                                     *)
(***************************************************************************)
sanitizeOptionLabel(label) ==
    LET sanitized == RemoveCommas(Trim(label))
    IN  IF Len(sanitized) > MAX_OPTION_LENGTH
        THEN SubSeq(sanitized, 1, MAX_OPTION_LENGTH)
        ELSE sanitized

validateOptionLabel(label, existingLabels) ==
    LET sanitized == sanitizeOptionLabel(label)
    IN  IF sanitized = <<>>
        THEN [isValid |-> FALSE, error |-> "Label cannot be empty"]
        ELSE IF Includes(existingLabels, sanitized)
        THEN [isValid |-> FALSE, error |-> "This label already exists"]
        ELSE [isValid |-> TRUE, error |-> "none"]

parseCommaSeparatedLabels(input) ==
    LET pieces == Split(input)
        labels == [i \in 1..Len(pieces) |-> sanitizeOptionLabel(pieces[i])]
    IN  SelectSeq(labels, LAMBDA l : Len(l) > 0)

\* canAddMoreOptions with the boundary off by one
canAddMoreOptionsOffByOne(currentCount) == currentCount <= MAX_OPTIONS

canAddMoreOptions(currentCount) == currentCount < MAX_OPTIONS

(***************************************************************************)
(* utils/helpers.ts                                                        *)
(***************************************************************************)
\* SectorIndex without the final % optionCount
SectorIndexNoWrap(normalizedRotation, optionCount) ==
    (normalizedRotation * optionCount) \div FULL_TURN

\* Math.floor(normalizedRotation / (360 / optionCount)) % optionCount, optionCount > 0
SectorIndex(normalizedRotation, optionCount) ==
    ((normalizedRotation * optionCount) \div FULL_TURN) % optionCount

\* selectedRotation >= 0 ? selectedRotation : 360 + (selectedRotation % 360),
\* where % is JavaScript's remainder (sign of the dividend)
NormalizedRotation(selectedRotation) ==
    IF selectedRotation >= 0
    THEN selectedRotation
    ELSE FULL_TURN - ((-selectedRotation) % FULL_TURN)

\* calculateSelectedOptionIndex clamping the quotient to the last sector
\* where the source wraps it around
calculateSelectedOptionIndexClamped(rotation, optionCount) ==
    IF optionCount = 0
    THEN -1
    ELSE Min((NormalizedRotation(rotation + POINTER_OFFSET) * optionCount)
                 \div FULL_TURN,
             optionCount - 1)

\* calculateSelectedOptionIndex without the pointer offset
calculateSelectedOptionIndexNoOffset(rotation, optionCount) ==
    IF optionCount = 0
    THEN -1
    ELSE ((NormalizedRotation(rotation) * optionCount) \div FULL_TURN) % optionCount

calculateSelectedOptionIndex(rotation, optionCount) ==
    IF optionCount = 0
    THEN -1
    ELSE SectorIndex(NormalizedRotation(rotation + POINTER_OFFSET), optionCount)

\* normalizeAngle as angle % 360 alone: JavaScript's remainder keeps the sign
normalizeAngleNoShift(angle) ==
    IF angle >= 0 THEN angle % FULL_TURN ELSE -((-angle) % FULL_TURN)

\* ((angle % 360) + 360) % 360 with JavaScript's remainder
normalizeAngle(angle) ==
    LET jsRem == IF angle >= 0 THEN angle % FULL_TURN
                 ELSE -((-angle) % FULL_TURN)
    IN  (jsRem + FULL_TURN) % FULL_TURN

(***************************************************************************)
(* Exact fractions, for Math.random() and for the eased rotation.          *)
(***************************************************************************)
RECURSIVE GCD(_, _)
GCD(a, b) == IF b = 0 THEN a ELSE GCD(b, a % b)

\* the fraction n/d in lowest terms, n >= 0, d > 0
Frac(n, d) == LET g == GCD(n, d) IN [n |-> n \div g, d |-> d \div g]

\* the ease-in curve t^3 in place of the ease-out curve
cubicIn(t) == Frac(t.n * t.n * t.n, t.d * t.d * t.d)

\* eases' cubicOut(t) = (t - 1)^3 + 1 for t = e/d in [0, 1]
cubicOut(t) ==
    LET r == t.d - t.n
    IN  Frac(t.d * t.d * t.d - r * r * r, t.d * t.d * t.d)

\* Math.floor((random * (hi - lo) + lo) * scale) for random = r.n / r.d
FloorScaled(r, lo, hi, scale) == ((r.n * (hi - lo) + lo * r.d) * scale) \div r.d

(***************************************************************************)
(* State of the ColorWheelPicker component and of its OptionForm.          *)
(***************************************************************************)
VARIABLES
    optionsList,          \* the option registry (signal of ColorWheelPicker)
    urlLabels,            \* the "labels" search parameter, "" when absent
    addLabelError,        \* the error shown under the add input, or NoError
    currentRotation,      \* the stored rotation, degrees
    selectedOption,       \* the displayed selection, or Null
    selectedOptionIndex,  \* Num(i), NaN or NullIndex
    isSpinning,
    winnerList,           \* the history, most recent first
    showConfetti,
    wheelTransform,       \* the rotation last written to #color-wheel's style
    frames,               \* pending requestAnimationFrame callbacks, each the
                          \* closure of one handleAnimatedSpin call
    timers,               \* pending hide-confetti timers: milliseconds left
    mounted,              \* the component has not been torn down
    recorded,             \* every label recorded since the last history clear,
                          \* oldest first (history of the run, not program state)
    call,                 \* the arguments of a call of a pure helper
    returned              \* what the call returned, NotReturned before it

vars == <<optionsList, urlLabels, addLabelError, currentRotation, selectedOption,
          selectedOptionIndex, isSpinning, winnerList, showConfetti,
          wheelTransform, frames, timers, mounted, recorded, call, returned>>

registryVars == <<optionsList, urlLabels>>

spinVars == <<currentRotation, selectedOption, selectedOptionIndex, isSpinning,
              winnerList, showConfetti, wheelTransform, frames, timers, recorded>>

Err(msg, count) == [msg |-> msg, count |-> count]

NoError == Err("null", 0)

NoCall == [none |-> TRUE]

NotReturned == [none |-> TRUE]

\* createEffect: urlLabels = urlParams.labels && urlParams.labels.split(",");
\* if (urlLabels) setOptionsList(urlLabels)
urlLabelsEffect(labels, current) ==
    IF labels # <<>> THEN Split(labels) ELSE current

\* the component as constructed for a page opened with the given "labels"
\* search parameter: the signals' initial values, then the effect
ComponentInit(labels) ==
    /\ urlLabels = labels
    /\ optionsList = urlLabelsEffect(labels, <<>>)
    /\ addLabelError = NoError
    /\ currentRotation = 0
    /\ selectedOption = Null
    /\ selectedOptionIndex = NullIndex
    /\ isSpinning = FALSE
    /\ winnerList = <<>>
    /\ showConfetti = FALSE
    /\ wheelTransform = Frac(0, 1)
    /\ frames = <<>>
    /\ timers = <<>>
    /\ mounted = TRUE
    /\ recorded = <<>>

(***************************************************************************)
(* The option registry: OptionForm.tsx and the createEffect of             *)
(* ColorWheelPicker.tsx that reads the labels back from the URL.           *)
(***************************************************************************)
\* SetOptions without the setUrlParams call: the new list is not persisted
SetOptionsNoUrl(list) ==
    /\ optionsList' = list
    /\ UNCHANGED urlLabels

\* setOptionsList(list); setUrlParams({labels: list.join(",")}), and the effect
SetOptions(list) ==
    /\ urlLabels' = Join(list)
    /\ optionsList' = urlLabelsEffect(Join(list), list)

handleAddOption(rawInput) ==
    LET input == Trim(rawInput)
    IN  /\ UNCHANGED <<spinVars, mounted, call, returned>>
        /\ IF input = <<>>
           THEN /\ addLabelError' = Err("Please enter an option", 0)
                /\ UNCHANGED registryVars
           ELSE IF Includes(input, ",")
           THEN LET labels == parseCommaSeparatedLabels(input)
                    validLabels ==
                        SelectSeq(labels,
                            LAMBDA l : validateOptionLabel(l, optionsList).isValid)
                    newList == optionsList \o validLabels
                IN  IF validLabels = <<>>
                    THEN /\ addLabelError' = Err("No valid options to add", 0)
                         /\ UNCHANGED registryVars
                    ELSE IF Len(newList) > MAX_OPTIONS
                    THEN /\ addLabelError' =
                                Err("Maximum options allowed. Only added",
                                    MAX_OPTIONS - Len(optionsList))
                         /\ SetOptions(Slice(newList, MAX_OPTIONS))
                    ELSE /\ addLabelError' = NoError
                         /\ SetOptions(newList)
           ELSE LET sanitized == sanitizeOptionLabel(input)
                    validation == validateOptionLabel(sanitized, optionsList)
                IN  IF ~validation.isValid
                    THEN /\ addLabelError' = Err(validation.error, 0)
                         /\ UNCHANGED registryVars
                    ELSE IF ~canAddMoreOptions(Len(optionsList))
                    THEN /\ addLabelError' = Err("Maximum options allowed", 0)
                         /\ UNCHANGED registryVars
                    ELSE /\ addLabelError' = NoError
                         /\ SetOptions(Append(optionsList, sanitized))

\* RemoveAt taking the index as counted from 1: the next element goes
RemoveAtNext(list, index) ==
    IF index + 2 \in 1..Len(list)
    THEN [i \in 1..(Len(list) - 1) |-> IF i < index + 2 THEN list[i] ELSE list[i + 1]]
    ELSE list

\* optionsList().filter((_, i) => i !== index), index counted from 0
\* (an index that is no position of the list filters nothing out)
RemoveAt(list, index) ==
    IF index + 1 \in 1..Len(list)
    THEN [i \in 1..(Len(list) - 1) |-> IF i < index + 1 THEN list[i] ELSE list[i + 1]]
    ELSE list

\* the "labels" search parameter changes from outside the component (the page
\* is navigated to another URL): the createEffect runs again
Navigate(labels) ==
    /\ urlLabels' = labels
    /\ optionsList' = urlLabelsEffect(labels, optionsList)
    /\ UNCHANGED addLabelError
    /\ UNCHANGED <<spinVars, mounted, call, returned>>

\* OptionForm's handleDeleteOption
handleDeleteOption(index) ==
    /\ SetOptions(RemoveAt(optionsList, index))
    /\ UNCHANGED addLabelError
    /\ UNCHANGED <<spinVars, mounted, call, returned>>

\* the Reset All button
ResetAll ==
    /\ SetOptions(<<>>)
    /\ addLabelError' = NoError
    /\ UNCHANGED <<spinVars, mounted, call, returned>>

(***************************************************************************)
(* The spin engine and the history: ColorWheelPicker.tsx.                  *)
(***************************************************************************)
\* NewSession without the % 360 of endRotation
NewSessionNoMod(randomAngle, randomTime) ==
    LET spinAngle == FloorScaled(randomAngle, minSpin, maxSpin, FULL_TURN)
    IN  [startRotation |-> currentRotation,
         spinAngle     |-> spinAngle,
         spinDuration  |-> FloorScaled(randomTime, minTime, maxTime, MS_PER_S),
         endRotation   |-> currentRotation + spinAngle,
         elapsed       |-> 0]

\* The constants drawn by one handleAnimatedSpin call and captured by its
\* animateSpin closure.  elapsed stands for Date.now() - startTime.
NewSession(randomAngle, randomTime) ==
    LET spinAngle == FloorScaled(randomAngle, minSpin, maxSpin, FULL_TURN)
    IN  [startRotation |-> currentRotation,
         spinAngle     |-> spinAngle,
         spinDuration  |-> FloorScaled(randomTime, minTime, maxTime, MS_PER_S),
         endRotation   |-> (currentRotation + spinAngle) % FULL_TURN,
         elapsed       |-> 0]

\* handleAnimatedSpin without its isSpinning check
handleAnimatedSpinNoGuard(randomAngle, randomTime) ==
    /\ isSpinning' = TRUE
    /\ frames' = Append(frames, NewSession(randomAngle, randomTime))
    /\ UNCHANGED <<mounted, call, returned, optionsList, urlLabels, addLabelError,
                   currentRotation, selectedOption, selectedOptionIndex,
                   winnerList, showConfetti, wheelTransform, timers, recorded>>

\* handleAnimatedSpin, called with the two Math.random() results it will draw
handleAnimatedSpin(randomAngle, randomTime) ==
    IF isSpinning
    THEN UNCHANGED vars
    ELSE /\ isSpinning' = TRUE
         /\ frames' = Append(frames, NewSession(randomAngle, randomTime))
         /\ UNCHANGED <<mounted, call, returned, optionsList, urlLabels, addLabelError, currentRotation,
                        selectedOption, selectedOptionIndex, winnerList,
                        showConfetti, wheelTransform, timers, recorded>>

\* the Spin button's onClick
SpinButtonClick(randomAngle, randomTime) ==
    IF ~isSpinning
    THEN handleAnimatedSpin(randomAngle, randomTime)
    ELSE UNCHANGED vars

\* startRotation + cubicOut(elapsed / spinDuration) * spinAngle
currentRotationValue(session) ==
    LET progress == cubicOut(Frac(session.elapsed, session.spinDuration))
    IN  Frac(session.startRotation * progress.d + progress.n * session.spinAngle,
             progress.d)

\* the sector index computed inline by animateSpin: NaN for an empty registry
InlineSectorIndex(endRotation, optionCount) ==
    IF optionCount = 0
    THEN NaN
    ELSE Num(SectorIndex(NormalizedRotation(endRotation + POINTER_OFFSET),
                         optionCount))

\* optionsList()[sectorIndex] || null
LabelAt(list, sectorIndex) ==
    IF sectorIndex = NaN THEN Null
    ELSE IF sectorIndex.num + 1 \in 1..Len(list) /\ list[sectorIndex.num + 1] # <<>>
    THEN list[sectorIndex.num + 1]
    ELSE Null

\* RecordWinner cutting at the wrong end: the newest entries are dropped
RecordWinnerKeepOldest(label, history) ==
    LET all == <<label>> \o history
    IN  SubSeq(all, Len(all) - Min(HISTORY_MAX_ITEMS, Len(all)) + 1, Len(all))

\* [label, ...winnerList()].splice(0, 35)
RecordWinner(label, history) == Slice(<<label>> \o history, HISTORY_MAX_ITEMS)

\* animateSpin whose animation branch does not call requestAnimationFrame again
animateSpinNoReschedule ==
    /\ frames # <<>>
    /\ LET session == Head(frames)
       IN  IF session.elapsed < session.spinDuration /\ ~mounted
           THEN \* document.getElementById('color-wheel') is null once the
                \* component's elements are gone: the callback ends in a
                \* TypeError before it reschedules itself
                /\ frames' = Tail(frames)
                /\ UNCHANGED <<mounted, call, returned, optionsList, urlLabels,
                               addLabelError, currentRotation, selectedOption,
                               selectedOptionIndex, isSpinning, winnerList,
                               showConfetti, wheelTransform, timers, recorded>>
           ELSE IF session.elapsed < session.spinDuration
           THEN /\ wheelTransform' = currentRotationValue(session)
                /\ frames' = Tail(frames)
                /\ UNCHANGED <<mounted, call, returned, optionsList, urlLabels, addLabelError,
                               currentRotation, selectedOption,
                               selectedOptionIndex, isSpinning, winnerList,
                               showConfetti, timers, recorded>>
           ELSE LET sectorIndex ==
                        InlineSectorIndex(session.endRotation, Len(optionsList))
                    selectedOptionLabel == LabelAt(optionsList, sectorIndex)
                IN  /\ selectedOption' = selectedOptionLabel
                    /\ selectedOptionIndex' = sectorIndex
                    /\ winnerList' = RecordWinner(selectedOptionLabel, winnerList)
                    /\ recorded' = Append(recorded, selectedOptionLabel)
                    /\ currentRotation' = session.endRotation
                    /\ isSpinning' = FALSE
                    /\ showConfetti' = TRUE
                    /\ timers' = Append(timers, CONFETTI_DURATION_MS)
                    /\ frames' = Tail(frames)
                    /\ UNCHANGED <<mounted, call, returned, optionsList, urlLabels, addLabelError,
                                   wheelTransform>>

\* one run of an animateSpin callback, the oldest pending one
animateSpin ==
    /\ frames # <<>>
    /\ LET session == Head(frames)
       IN  IF session.elapsed < session.spinDuration /\ ~mounted
           THEN \* document.getElementById('color-wheel') is null once the
                \* component's elements are gone: the callback ends in a
                \* TypeError before it reschedules itself
                /\ frames' = Tail(frames)
                /\ UNCHANGED <<mounted, call, returned, optionsList, urlLabels,
                               addLabelError, currentRotation, selectedOption,
                               selectedOptionIndex, isSpinning, winnerList,
                               showConfetti, wheelTransform, timers, recorded>>
           ELSE IF session.elapsed < session.spinDuration
           THEN /\ wheelTransform' = currentRotationValue(session)
                /\ frames' = Append(Tail(frames), session)
                /\ UNCHANGED <<mounted, call, returned, optionsList, urlLabels, addLabelError,
                               currentRotation, selectedOption,
                               selectedOptionIndex, isSpinning, winnerList,
                               showConfetti, timers, recorded>>
           ELSE LET sectorIndex ==
                        InlineSectorIndex(session.endRotation, Len(optionsList))
                    selectedOptionLabel == LabelAt(optionsList, sectorIndex)
                IN  /\ selectedOption' = selectedOptionLabel
                    /\ selectedOptionIndex' = sectorIndex
                    /\ winnerList' = RecordWinner(selectedOptionLabel, winnerList)
                    /\ recorded' = Append(recorded, selectedOptionLabel)
                    /\ currentRotation' = session.endRotation
                    /\ isSpinning' = FALSE
                    /\ showConfetti' = TRUE
                    /\ timers' = Append(timers, CONFETTI_DURATION_MS)
                    /\ frames' = Tail(frames)
                    /\ UNCHANGED <<mounted, call, returned, optionsList, urlLabels, addLabelError,
                                   wheelTransform>>

\* the callback of the hide-confetti timer
HideConfetti ==
    /\ timers # <<>>
    /\ Head(timers) = 0
    /\ showConfetti' = FALSE
    /\ timers' = Tail(timers)
    /\ UNCHANGED <<mounted, call, returned, optionsList, urlLabels, addLabelError, currentRotation,
                   selectedOption, selectedOptionIndex, isSpinning, winnerList,
                   wheelTransform, frames, recorded>>

\* the component is torn down (its owner is disposed and its elements leave
\* the document): the source registers no onCleanup, so the pending frame
\* callback and the pending timers stay scheduled
Unmount ==
    /\ mounted
    /\ mounted' = FALSE
    /\ UNCHANGED <<call, returned, optionsList, urlLabels, addLabelError,
                   currentRotation, selectedOption, selectedOptionIndex,
                   isSpinning, winnerList, showConfetti, wheelTransform,
                   frames, timers, recorded>>

\* the Clear button of the history panel, rendered while the history is non-empty
ClearHistory ==
    /\ winnerList # <<>>
    /\ winnerList' = <<>>
    /\ recorded' = <<>>
    /\ UNCHANGED <<mounted, call, returned, optionsList, urlLabels, addLabelError, currentRotation,
                   selectedOption, selectedOptionIndex, isSpinning,
                   showConfetti, wheelTransform, frames, timers>>

Max(a, b) == IF a > b THEN a ELSE b

\* newList.splice(index, 1): a negative index counts from the end of the list
\* (start = max(length + index, 0)), an index past the end removes nothing
Splice1(list, index) ==
    RemoveAt(list, IF index < 0 THEN Max(Len(list) + index, 0) ELSE index)

\* ColorWheelPicker's handleDeleteOption
handleDeleteOptionWheel(index) ==
    /\ SetOptions(Splice1(optionsList, index))
    /\ UNCHANGED addLabelError
    /\ UNCHANGED <<spinVars, mounted, call, returned>>

\* the Remove button next to the selection, rendered while a selection is shown
\* and the registry includes its label
RemoveButtonClick ==
    /\ selectedOption # Null
    /\ selectedOption # <<>>
    /\ ~isSpinning
    /\ Includes(optionsList, selectedOption)
    /\ handleDeleteOptionWheel(selectedOptionIndex.num)

\* the clock advances by ms: Date.now() grows for every closure and every
\* timer comes ms closer.  The browser runs a due timer and the frame callback
\* of the current frame before a whole clock step has passed.
Tick(ms) ==
    /\ frames # <<>> \/ timers # <<>>
    /\ \A i \in 1..Len(timers) : timers[i] > 0
    /\ \A i \in 1..Len(frames) :
            /\ frames[i].elapsed < frames[i].spinDuration
            /\ wheelTransform = currentRotationValue(frames[i])
    /\ frames' = [i \in 1..Len(frames) |->
                    [frames[i] EXCEPT !.elapsed =
                        Min(@ + ms, frames[i].spinDuration)]]
    /\ timers' = [i \in 1..Len(timers) |-> IF timers[i] > ms THEN timers[i] - ms ELSE 0]
    /\ UNCHANGED <<mounted, call, returned, optionsList, urlLabels, addLabelError, currentRotation,
                   selectedOption, selectedOptionIndex, isSpinning, winnerList,
                   showConfetti, wheelTransform, recorded>>

(***************************************************************************)
(* The inputs explored, and the specifications.                            *)
(***************************************************************************)
\* texts typed into the add input
AddInputs == { <<"a">>, <<"a", ",", "b">> }

\* results of Math.random(), as fractions in [0, 1)
RandomAngles == { Frac(0, 1), Frac(1, 20) }

RandomTimes == { Frac(0, 1) }

\* clock steps, milliseconds
ClockSteps == { 1000 }

\* "labels" search parameters the page is opened with
UrlInputs == { <<>>, <<"a", ",", ",", "b">> }

CanSpinAgain(limit) == isSpinning \/ Len(recorded) < limit

\* The whole component, opened with or without labels in the URL.
Init ==
    /\ \E labels \in UrlInputs : ComponentInit(labels)
    /\ call = NoCall
    /\ returned = NotReturned

Next ==
    \/ /\ canAddMoreOptions(Len(optionsList))
       /\ \E input \in AddInputs : handleAddOption(input)
    \/ \E index \in 0..(Len(optionsList) - 1) : handleDeleteOption(index)
    \/ ResetAll
    \/ /\ CanSpinAgain(MaxSpins)
       /\ \E ra \in RandomAngles, rt \in RandomTimes : SpinButtonClick(ra, rt)
    \/ /\ CanSpinAgain(MaxSpins)
       /\ \E ra \in RandomAngles, rt \in RandomTimes : handleAnimatedSpin(ra, rt)
    \/ animateSpin
    \/ HideConfetti
    \/ ClearHistory
    \/ RemoveButtonClick
    \/ \E ms \in ClockSteps : Tick(ms)

Spec == Init /\ [][Next]_vars

\* The option form alone, from an empty registry, with more texts.
RegistryInputs ==
    { <<"a">>, <<"b">>, <<"c">>, <<"d">>, <<" ">>, <<",">>,
      <<"b", ",", " ", "c", ",", " ", "b">> }

InitRegistry ==
    /\ ComponentInit(<<>>)
    /\ call = NoCall
    /\ returned = NotReturned

NextRegistry ==
    \/ /\ canAddMoreOptions(Len(optionsList))
       /\ \E input \in RegistryInputs : handleAddOption(input)
    \/ \E index \in 0..(Len(optionsList) - 1) : handleDeleteOption(index)
    \/ ResetAll

SpecRegistry == InitRegistry /\ [][NextRegistry]_vars

\* Spins and history clears on a two-option wheel, long enough to overflow
\* the history.
InitHistory ==
    /\ ComponentInit(<<"a", ",", "b">>)
    /\ call = NoCall
    /\ returned = NotReturned

\* one more record than the history holds
MaxRecorded == HISTORY_MAX_ITEMS + 1

NextHistory ==
    \/ /\ CanSpinAgain(MaxRecorded)
       /\ \E ra \in RandomAngles, rt \in RandomTimes : SpinButtonClick(ra, rt)
    \/ \E index \in 0..(Len(optionsList) - 1) : handleDeleteOption(index)
    \/ animateSpin
    \/ HideConfetti
    \/ ClearHistory
    \/ \E ms \in ClockSteps : Tick(ms)

SpecHistory == InitHistory /\ [][NextHistory]_vars

\* The winner resolution as a function: every rotation the component can
\* store, every option count up to MaxCount.
ResolveCalls ==
    { [rotation |-> r, optionCount |-> n] :
        r \in 0..(FULL_TURN - 1), n \in 0..MaxCount }

InitResolve ==
    /\ ComponentInit(<<>>)
    /\ call \in ResolveCalls
    /\ returned = NotReturned

\* calls calculateSelectedOptionIndex and animateSpin's inline computation
ResolveCall ==
    /\ call # NoCall
    /\ returned = NotReturned
    /\ returned' =
         [helper |-> calculateSelectedOptionIndex(call.rotation, call.optionCount),
          inline |-> InlineSectorIndex(call.rotation, call.optionCount)]
    /\ UNCHANGED <<mounted, call, registryVars, addLabelError, spinVars>>

SpecResolve == InitResolve /\ [][ResolveCall]_vars

\* The resolution function and the component side by side.
InitWinner == Init \/ InitResolve

NextWinner ==
    \/ call = NoCall /\ Next
    \/ ResolveCall

SpecWinner == InitWinner /\ [][NextWinner]_vars

\* Direct calls of the form's handlers and of the wheel's delete handler, from
\* an empty registry: adds also at the cap, deletes also with an index that is
\* no position of the registry.
\* a label one character under the length cap
ShortLabel == [i \in 1..(MAX_OPTION_LENGTH - 1) |-> "a"]

\* a text one character over the length cap, with a space at the cap
LongInput ==
    [i \in 1..(MAX_OPTION_LENGTH + 1) |-> IF i = MAX_OPTION_LENGTH THEN " " ELSE "a"]

FormInputs ==
    { ShortLabel, LongInput, <<"b">>, <<"B">>, <<"c">>, <<" ">>, <<",">>,
      LongInput \o <<",", "d", ",", "e">> }

NextForm ==
    \/ \E input \in FormInputs : handleAddOption(input)
    \/ \E index \in (-1)..Len(optionsList) : handleDeleteOption(index)
    \/ \E index \in (-1)..Len(optionsList) : handleDeleteOptionWheel(index)
    \/ ResetAll

SpecForm == InitRegistry /\ [][NextForm]_vars

\* characters of the texts a function or the URL is given
Alphabet == {"a", " ", ","}

\* every text of at most n characters
Texts(n) == UNION { [1..k -> Alphabet] : k \in 0..n }

\* texts up to two characters past the length cap
SanitizeInputs == Texts(MAX_OPTION_LENGTH + 2)

\* sanitizeOptionLabel as a function, applied once and to its own result
InitSanitize ==
    /\ ComponentInit(<<>>)
    /\ call \in { [label |-> text] : text \in SanitizeInputs }
    /\ returned = NotReturned

SanitizeCall ==
    /\ call # NoCall
    /\ returned = NotReturned
    /\ returned' =
         [once  |-> sanitizeOptionLabel(call.label),
          twice |-> sanitizeOptionLabel(sanitizeOptionLabel(call.label))]
    /\ UNCHANGED <<mounted, call, registryVars, addLabelError, spinVars>>

SpecSanitize == InitSanitize /\ [][SanitizeCall]_vars

\* The page opened with, and navigated to, any "labels" search parameter.
HydrateInputs == SanitizeInputs

InitHydrate ==
    /\ \E labels \in HydrateInputs : ComponentInit(labels)
    /\ call = NoCall
    /\ returned = NotReturned

NextHydrate == \E labels \in HydrateInputs : Navigate(labels)

SpecHydrate == InitHydrate /\ [][NextHydrate]_vars

\* One wheel of two options that is torn down at any moment.
NextTeardown ==
    \/ /\ mounted
       /\ CanSpinAgain(MaxSpins)
       /\ \E ra \in RandomAngles, rt \in RandomTimes : SpinButtonClick(ra, rt)
    \/ animateSpin
    \/ HideConfetti
    \/ \E ms \in ClockSteps : Tick(ms)
    \/ Unmount

SpecTeardown == InitHistory /\ [][NextTeardown]_vars

\* The animation frame by frame: a finer clock and two durations.
AnimationClockSteps == { 250, 500 }

\* results of Math.random() for the duration: 2000 ms and 3000 ms
AnimationTimes == { Frac(0, 1), Frac(1, 4) }

NextAnimation ==
    \/ /\ CanSpinAgain(MaxSpins)
       /\ \E ra \in RandomAngles, rt \in AnimationTimes : SpinButtonClick(ra, rt)
    \/ animateSpin
    \/ HideConfetti
    \/ \E ms \in AnimationClockSteps : Tick(ms)

SpecAnimation == InitHistory /\ [][NextAnimation]_vars

\* Spins with deletes and rejected triggers in between, where the browser
\* keeps delivering animation frames, the clock keeps advancing and due timers
\* fire.
\* the spins followed to their completion, one fewer than the component is
\* explored with
LiveSpins == MaxSpins - 1

NextLive ==
    \/ /\ CanSpinAgain(LiveSpins)
       /\ \E ra \in RandomAngles, rt \in RandomTimes : SpinButtonClick(ra, rt)
    \/ /\ CanSpinAgain(LiveSpins)
       /\ \E ra \in RandomAngles, rt \in RandomTimes : handleAnimatedSpin(ra, rt)
    \/ \E index \in 0..(Len(optionsList) - 1) : handleDeleteOption(index)
    \/ animateSpin
    \/ HideConfetti
    \/ \E ms \in ClockSteps : Tick(ms)

SpecLive ==
    /\ InitHistory
    /\ [][NextLive]_vars
    /\ WF_vars(animateSpin)
    /\ WF_vars(HideConfetti)
    /\ WF_vars(\E ms \in ClockSteps : Tick(ms))

\* The angle helpers as functions: every integer angle within three turns of
\* zero, every option count up to MaxCount.
HelperCalls ==
    { [angle |-> a, optionCount |-> n] :
        a \in (-(3 * FULL_TURN))..(3 * FULL_TURN), n \in 0..MaxCount }

InitHelpers ==
    /\ ComponentInit(<<>>)
    /\ call \in HelperCalls
    /\ returned = NotReturned

\* calls calculateSelectedOptionIndex on the angle and on the angle one and
\* two turns further, and normalizeAngle on the angle and on its own result
HelperCall ==
    /\ call # NoCall
    /\ returned = NotReturned
    /\ returned' =
         [index    |-> calculateSelectedOptionIndex(call.angle, call.optionCount),
          index360 |-> calculateSelectedOptionIndex(call.angle + FULL_TURN,
                                                    call.optionCount),
          index720 |-> calculateSelectedOptionIndex(call.angle + 2 * FULL_TURN,
                                                    call.optionCount),
          normalized   |-> normalizeAngle(call.angle),
          renormalized |-> normalizeAngle(normalizeAngle(call.angle))]
    /\ UNCHANGED <<mounted, call, registryVars, addLabelError, spinVars>>

SpecHelpers == InitHelpers /\ [][HelperCall]_vars

(***************************************************************************)
(* Steps of the spin engine, recognised by what they do to isSpinning.     *)
(***************************************************************************)
\* a call of the trigger, by the button or directly
TriggerStep ==
    \E ra \in RandomAngles, rt \in RandomTimes :
        handleAnimatedSpin(ra, rt) \/ SpinButtonClick(ra, rt)

\* the animateSpin run that finalizes a spin
FinalizeStep == isSpinning /\ ~isSpinning'

\* an animateSpin run that draws and reschedules
DrawStep == animateSpin /\ isSpinning'

\* the number of positions of list holding x
Count(list, x) == Cardinality({i \in 1..Len(list) : list[i] = x})

(***************************************************************************)
(* The claims.                                                             *)
(***************************************************************************)
\* C1: at most one spin is active at a time.  In every reachable state there
\* is at most one pending animation callback, and it is pending exactly while
\* isSpinning; a trigger (handleAnimatedSpin or the Spin button) made while
\* isSpinning changes neither the rotation, the selection, the history nor
\* the running spin's target angle and duration.
C1_AtMostOneSpin ==
    /\ [](Len(frames) <= 1 /\ (isSpinning <=> frames # <<>>))
    /\ [][(isSpinning /\ TriggerStep)
            => UNCHANGED <<currentRotation, selectedOption, selectedOptionIndex,
                           winnerList, frames>>]_vars

\* a spin is under way, half of its duration gone: a trigger made now is rejected
C1_Witness ==
    /\ isSpinning
    /\ Len(frames) = 1
    /\ frames[1].elapsed > 0
    /\ frames[1].spinAngle >= minSpin * FULL_TURN

\* C2: triggering a spin while the registry is empty is a no-op: isSpinning
\* stays false, no animation frame is scheduled, and rotation, selection and
\* history are unchanged.
C2_EmptyTriggerIsNoOp ==
    [][(optionsList = <<>> /\ TriggerStep)
         => UNCHANGED <<isSpinning, frames, currentRotation, selectedOption,
                        selectedOptionIndex, winnerList>>]_vars

\* C3: a spin that finalizes on an empty registry resolves no winner: nothing
\* is prepended to the history and the selected option and index keep their
\* values.
C3_EmptyFinalizeResolvesNothing ==
    [][(optionsList = <<>> /\ FinalizeStep)
         => UNCHANGED <<winnerList, selectedOption, selectedOptionIndex>>]_vars

\* C4: for every optionCount > 0 and every end rotation in [0, 360) the index
\* computed by calculateSelectedOptionIndex, and the same index computed
\* inline by animateSpin, is an integer in [0, optionCount); and a spin that
\* finalizes on a non-empty registry leaves a selected index that is a valid
\* index of that registry.
C4_WinnerIndexInRange ==
    /\ []((returned # NotReturned /\ call.optionCount > 0)
            => /\ returned.helper \in 0..(call.optionCount - 1)
               /\ returned.inline = Num(returned.helper))
    /\ [][(FinalizeStep /\ optionsList # <<>>)
            => \E i \in 0..(Len(optionsList) - 1) : selectedOptionIndex' = Num(i)]_vars

\* the function was applied to the last rotation on the largest wheel, where
\* the unreduced quotient is past optionCount
C4_Witness ==
    /\ returned # NotReturned
    /\ call.optionCount = MaxCount
    /\ call.rotation = FULL_TURN - 1
    /\ returned.helper =
         ((FULL_TURN + POINTER_OFFSET - 1) * MaxCount) \div FULL_TURN - MaxCount

\* the index the spec prescribes: the angle is reduced mod 360 first
ReferenceIndex(endRotation, optionCount) ==
    ((((endRotation + POINTER_OFFSET) % FULL_TURN) * optionCount) \div FULL_TURN)
        % optionCount

C6_ExactlyOneWinnerPerSpin ==
    [][/\ (TriggerStep \/ DrawStep)
            => UNCHANGED <<selectedOption, selectedOptionIndex, winnerList, recorded>>
       /\ (FinalizeStep /\ optionsList # <<>>)
            => /\ selectedOptionIndex' \in {Num(i) : i \in 0..(Len(optionsList) - 1)}
               /\ recorded' = Append(recorded, optionsList[selectedOptionIndex'.num + 1])
               /\ winnerList' # <<>>
               /\ Head(winnerList') = optionsList[selectedOptionIndex'.num + 1]
               /\ selectedOption' = optionsList[selectedOptionIndex'.num + 1]
       /\ Len(recorded') > Len(recorded) => FinalizeStep
      ]_vars

\* C7: the history holds at most HISTORY_MAX_ITEMS entries and is exactly the
\* most recent min(n, HISTORY_MAX_ITEMS) labels recorded since the last clear,
\* most recent first: a record into a full history drops the oldest entry.
C7_HistoryIsMostRecent ==
    /\ Len(winnerList) = Min(Len(recorded), HISTORY_MAX_ITEMS)
    /\ \A i \in 1..Len(winnerList) : winnerList[i] = recorded[Len(recorded) - i + 1]

\* one record more than the history holds: the first record is gone
C7_Witness ==
    /\ Len(recorded) = HISTORY_MAX_ITEMS + 1
    /\ Len(winnerList) = HISTORY_MAX_ITEMS
    /\ recorded[1] # recorded[2]
    /\ winnerList[1] = recorded[Len(recorded)]
    /\ ~isSpinning

\* C8: from an empty registry, after any sequence of single adds, batch adds,
\* deletes and resets through the option form, the registry holds at most
\* MAX_OPTIONS labels.
C8_RegistryWithinMaxOptions == Len(optionsList) <= MAX_OPTIONS

\* a batch add was cut at the cap
C8_Witness ==
    /\ Len(optionsList) = MAX_OPTIONS
    /\ addLabelError.msg = "Maximum options allowed. Only added"

\* C9: from an empty registry, after any sequence of single adds, batch adds,
\* deletes and resets, no two labels of the registry are identical.
C9_RegistryLabelsUnique ==
    \A i, j \in 1..Len(optionsList) : optionsList[i] = optionsList[j] => i = j

\* C10: a batch add of "b, c, b" to the registry ["a"] leaves ["a", "b", "c"];
\* a label occurring several times in one batch input is added at most once.
C10_BatchAddsRepeatedLabelOnce ==
    [][\A input \in RegistryInputs :
          handleAddOption(input)
            => /\ \A i \in 1..Len(optionsList') :
                     Count(optionsList', optionsList'[i])
                        <= Count(optionsList, optionsList'[i]) + 1
               /\ (optionsList = <<<<"a">>>>
                   /\ input = <<"b", ",", " ", "c", ",", " ", "b">>)
                     => optionsList' = << <<"a">>, <<"b">>, <<"c">> >>
      ]_vars

(***************************************************************************)
(* What the claims call a label, a single add and a batch add.             *)
(***************************************************************************)
\* the text goes to the single branch of handleAddOption
IsSingleAdd(input) == Trim(input) # <<>> /\ ~Includes(Trim(input), ",")

\* the text goes to the batch branch of handleAddOption
IsBatchAdd(input) == Includes(Trim(input), ",")

\* non-empty, no leading or trailing whitespace, at most the length cap
IsTrimmedLabel(label) ==
    /\ label # <<>>
    /\ label[1] # " "
    /\ label[Len(label)] # " "
    /\ Len(label) <= MAX_OPTION_LENGTH

\* the labels of a batch that are non-empty and not in the registry
BatchValidLabels(input, registry) ==
    SelectSeq(parseCommaSeparatedLabels(Trim(input)),
              LAMBDA l : l # <<>> /\ ~Includes(registry, l))

\* the labels written one after another with a comma between neighbours
RECURSIVE CommaJoined(_)
CommaJoined(list) ==
    IF Len(list) <= 1
    THEN (IF list = <<>> THEN <<>> ELSE list[1])
    ELSE CommaJoined(SubSeq(list, 1, Len(list) - 1)) \o <<",">> \o list[Len(list)]

\* C11: sanitizeOptionLabel is idempotent: for every text x, sanitizing the
\* sanitized text gives the sanitized text again.
C11_SanitizeIdempotent ==
    returned # NotReturned => returned.twice = returned.once

\* C12: every label stored in the registry by a single add or a batch add is
\* non-empty, has no leading or trailing whitespace, contains no comma and is
\* at most MAX_OPTION_LENGTH characters long.
C12_StoredLabelsSanitized ==
    \A i \in 1..Len(optionsList) :
        /\ IsTrimmedLabel(optionsList[i])
        /\ ~Includes(optionsList[i], ",")

\* C13: on a registry with fewer than MAX_OPTIONS labels, a single add whose
\* sanitized label is non-empty and not in the registry appends the sanitized
\* label at the end: the length grows by one and the old labels keep their
\* positions.
C13_SingleAddAppends ==
    [][\A input \in FormInputs :
          (/\ handleAddOption(input)
           /\ IsSingleAdd(input)
           /\ Len(optionsList) < MAX_OPTIONS
           /\ sanitizeOptionLabel(input) # <<>>
           /\ ~Includes(optionsList, sanitizeOptionLabel(input)))
            => /\ Len(optionsList') = Len(optionsList) + 1
               /\ optionsList'[Len(optionsList')] = sanitizeOptionLabel(input)
               /\ \A i \in 1..Len(optionsList) : optionsList'[i] = optionsList[i]
      ]_vars

\* C14: a single add whose sanitized label is already in the registry fails
\* with the duplicate-label error and leaves the registry and the persisted
\* label string unchanged; "B" is no duplicate of "b" and is accepted.
C14_DuplicateSingleAddRejected ==
    [][\A input \in FormInputs :
          /\ (/\ handleAddOption(input)
              /\ IsSingleAdd(input)
              /\ Includes(optionsList, sanitizeOptionLabel(input)))
               => /\ addLabelError' = Err("This label already exists", 0)
                  /\ UNCHANGED registryVars
          /\ (/\ handleAddOption(input)
              /\ input = <<"B">>
              /\ Includes(optionsList, <<"b">>)
              /\ ~Includes(optionsList, <<"B">>)
              /\ Len(optionsList) < MAX_OPTIONS)
               => optionsList' = Append(optionsList, <<"B">>)
      ]_vars

\* C15: on a registry of exactly MAX_OPTIONS labels a single add fails for
\* any input and leaves the registry and the persisted label string
\* unchanged; when the sanitized label is non-empty and not in the registry
\* the error is the capacity error.  canAddMoreOptions(n) is n < MAX_OPTIONS.
C15_SingleAddAtCapacityRejected ==
    /\ [](canAddMoreOptions(Len(optionsList)) <=> Len(optionsList) < MAX_OPTIONS)
    /\ [][\A input \in FormInputs :
            (/\ handleAddOption(input)
             /\ ~IsBatchAdd(input)
             /\ Len(optionsList) = MAX_OPTIONS)
              => /\ UNCHANGED registryVars
                 /\ addLabelError' # NoError
                 /\ (/\ sanitizeOptionLabel(input) # <<>>
                     /\ ~Includes(optionsList, sanitizeOptionLabel(input)))
                      => addLabelError' = Err("Maximum options allowed", 0)
        ]_vars

\* C16: a batch add with more valid labels than the remaining capacity leaves
\* the old registry followed by the first MAX_OPTIONS - length valid labels in
\* input order, MAX_OPTIONS labels in all, and warns with the number of labels
\* appended; a batch with no valid label reports an error and changes nothing.
C16_BatchAddFillsToCapacity ==
    [][\A input \in FormInputs :
          (handleAddOption(input) /\ IsBatchAdd(input))
            => LET valid == BatchValidLabels(input, optionsList)
                   room  == MAX_OPTIONS - Len(optionsList)
               IN  /\ Len(valid) > room
                        => /\ optionsList' = optionsList \o SubSeq(valid, 1, room)
                           /\ Len(optionsList') = MAX_OPTIONS
                           /\ addLabelError' =
                                Err("Maximum options allowed. Only added",
                                    Len(optionsList') - Len(optionsList))
                   /\ valid = <<>>
                        => /\ addLabelError' = Err("No valid options to add", 0)
                           /\ UNCHANGED registryVars
      ]_vars

\* C17: a delete with an index that is no position of the registry (negative,
\* or >= length) leaves the registry and the persisted labels unchanged.
C17_DeleteOutOfRangeChangesNothing ==
    [][\A index \in {-1, Len(optionsList)} :
          (handleDeleteOption(index) \/ handleDeleteOptionWheel(index))
            => UNCHANGED registryVars
      ]_vars

\* C18: a delete at a valid index i, by the form's handler or by the wheel's,
\* removes exactly the option at position i: the labels before it stay, the
\* labels after it move up by one, the length shrinks by one.
C18_DeleteRemovesExactlyOne ==
    [][\A index \in 0..(Len(optionsList) - 1) :
          (handleDeleteOption(index) \/ handleDeleteOptionWheel(index))
            => /\ Len(optionsList') = Len(optionsList) - 1
               /\ \A j \in 1..index : optionsList'[j] = optionsList[j]
               /\ \A j \in (index + 1)..(Len(optionsList) - 1) :
                     optionsList'[j] = optionsList[j + 1]
      ]_vars

\* a batch add filled the registry and one delete followed
C18_Witness ==
    /\ Len(optionsList) = MAX_OPTIONS - 1
    /\ addLabelError.msg = "Maximum options allowed. Only added"

\* C19: after every registry mutation through the handlers the persisted
\* label string is the registry's labels joined by commas, and splitting it
\* on commas gives back the registry whenever the registry is non-empty.
C19_PersistedLabelsRoundTrip ==
    /\ urlLabels = CommaJoined(optionsList)
    /\ optionsList # <<>> => Split(urlLabels) = optionsList

\* two single adds were persisted
C19_Witness ==
    /\ Len(optionsList) = 2
    /\ optionsList[1] # optionsList[2]
    /\ Includes(urlLabels, ",")
    /\ addLabelError = NoError

\* C20: a registry hydrated from an external label string holds only
\* non-empty, trimmed labels of at most MAX_OPTION_LENGTH characters, and at
\* most MAX_OPTIONS of them.
C20_HydratedLabelsSanitized ==
    /\ \A i \in 1..Len(optionsList) : IsTrimmedLabel(optionsList[i])
    /\ Len(optionsList) <= MAX_OPTIONS

(***************************************************************************)
(* Exact arithmetic on the drawn rotation.                                 *)
(***************************************************************************)
\* a <= b for fractions with positive denominators
FracLeq(a, b) == a.n * b.d <= b.n * a.d

\* startRotation + (1 - (1 - elapsed/duration)^3) * spinAngle
EasedValue(session) ==
    LET g == GCD(session.elapsed, session.spinDuration)
        e == session.elapsed \div g
        d == session.spinDuration \div g
        r == d - e
    IN  Frac(session.startRotation * d * d * d
               + (d * d * d - r * r * r) * session.spinAngle,
             d * d * d)

\* C21: once the component is torn down no frame callback and no timer
\* callback of it is pending and none runs.
C21_TeardownCancelsCallbacks ==
    /\ [](~mounted => (frames = <<>> /\ timers = <<>>))
    /\ [][~mounted => ~(animateSpin \/ HideConfetti)]_vars

\* C22: a click on Remove removes one option whose label is the displayed
\* selection and no other option, whatever edits of the registry came between
\* the spin's completion and the click.
C22_RemoveRemovesDisplayedSelection ==
    [][RemoveButtonClick
         => /\ Len(optionsList') = Len(optionsList) - 1
            /\ Count(optionsList', selectedOption)
                 = Count(optionsList, selectedOption) - 1
            /\ \A i \in 1..Len(optionsList) :
                 optionsList[i] # selectedOption
                   => Count(optionsList', optionsList[i])
                        = Count(optionsList, optionsList[i])
      ]_vars

\* C23: for every optionCount > 0 and every rotation r, the rotations r,
\* r + 360 and r + 720 select the same sector index.
C23_ResolutionPeriodic ==
    (returned # NotReturned /\ call.optionCount > 0)
        => /\ returned.index360 = returned.index
           /\ returned.index720 = returned.index

\* the function was applied to a rotation more than a turn below zero, next
\* to a sector boundary
C23_Witness ==
    /\ returned # NotReturned
    /\ call.optionCount = MaxCount
    /\ call.angle = -(FULL_TURN + POINTER_OFFSET + 1)
    /\ returned.index = MaxCount - 1
    /\ returned.index720 = MaxCount - 1

\* C24: for every integer angle normalizeAngle returns a value in [0, 360)
\* congruent to the angle modulo 360, and normalizing the result again
\* changes nothing.
C24_NormalizeAngleCanonical ==
    returned # NotReturned
        => /\ returned.normalized \in 0..(FULL_TURN - 1)
           /\ (returned.normalized - call.angle) % FULL_TURN = 0
           /\ returned.renormalized = returned.normalized

\* the function was applied to an angle just below two turns under zero
C24_Witness ==
    /\ returned # NotReturned
    /\ call.angle = -(2 * FULL_TURN) - 1
    /\ returned.normalized = FULL_TURN - 1

\* C25: the winner is computed from the registry as it is at finalize time:
\* with a positive option count the index is the reference index for that
\* count and the end rotation, lies in [0, count), and the label recorded and
\* displayed is the label at that index of the finalize-time registry.
C25_WinnerFromFinalizeTimeRegistry ==
    [][(FinalizeStep /\ optionsList # <<>>)
         => LET index == ReferenceIndex(Head(frames).endRotation, Len(optionsList))
            IN  /\ index \in 0..(Len(optionsList) - 1)
                /\ selectedOptionIndex' = Num(index)
                /\ recorded' = Append(recorded, optionsList[index + 1])
                /\ selectedOption' = optionsList[index + 1]
      ]_vars

\* C26: the stored rotation is always in [0, 360); a trigger captures it as
\* startRotation; finalize sets it to (startRotation + spinAngle) mod 360;
\* no other step changes it.
C26_StoredRotation ==
    /\ [](currentRotation \in 0..(FULL_TURN - 1))
    /\ [][/\ (frames # <<>> /\ FinalizeStep)
               => /\ Head(frames).startRotation = currentRotation
                  /\ currentRotation' =
                       (Head(frames).startRotation + Head(frames).spinAngle)
                         % FULL_TURN
          /\ currentRotation' # currentRotation => FinalizeStep
          /\ Len(frames') > Len(frames)
               => frames'[Len(frames')].startRotation = currentRotation
         ]_vars

\* two spins of five turns and a quarter have been added up
C26_Witness ==
    /\ ~isSpinning
    /\ Len(recorded) = 2
    /\ currentRotation = 2 * POINTER_OFFSET

\* C27: every value drawn on a frame is startRotation +
\* (1 - (1 - elapsed/duration)^3) * spinAngle, at least startRotation, below
\* startRotation + spinAngle, and not smaller than the value drawn on the
\* previous frame of the same spin.
C27_DrawnRotationMonotonic ==
    [][(DrawStep /\ frames # <<>>)
         => LET session == Head(frames)
            IN  /\ wheelTransform' = EasedValue(session)
                /\ FracLeq(Frac(session.startRotation, 1), wheelTransform')
                /\ ~FracLeq(Frac(session.startRotation + session.spinAngle, 1),
                            wheelTransform')
                /\ session.elapsed > 0 => FracLeq(wheelTransform, wheelTransform')
      ]_vars

\* a frame past the start of a spin has been drawn, ahead of the start angle
C27_Witness ==
    /\ isSpinning
    /\ Len(frames) = 1
    /\ frames[1].elapsed > 0
    /\ frames[1].elapsed < frames[1].spinDuration
    /\ wheelTransform = EasedValue(frames[1])
    /\ ~FracLeq(wheelTransform, Frac(frames[1].startRotation, 1))

\* C28: every started spin completes: a state with isSpinning is always
\* followed by a state without, whatever deletes and rejected triggers come
\* in between; isSpinning goes back to false in a finalize step only.
C28_SpinEventuallyCompletes ==
    /\ isSpinning ~> ~isSpinning
    /\ [][FinalizeStep => (animateSpin /\ frames' = Tail(frames))]_vars

\* a spin has completed on a wheel whose options were all deleted meanwhile
C28_Witness ==
    /\ ~isSpinning
    /\ recorded # <<>>
    /\ optionsList = <<>>
    /\ frames = <<>>

\* C29: when a spin finalizes, the rotation last applied to the wheel element
\* is startRotation + spinAngle, the angle the winner is computed from.
C29_FinalAngleDrawn ==
    [][(FinalizeStep /\ frames # <<>>)
         => wheelTransform' =
              Frac(Head(frames).startRotation + Head(frames).spinAngle, 1)
      ]_vars

\* C30: showConfetti stays true for the full confetti duration after every
\* spin completion: while the hide timer of the latest completion has time
\* left, the confetti is shown, and the timer's callback then hides it.
C30_ConfettiShownFullDuration ==
    /\ []((timers # <<>> /\ timers[Len(timers)] > 0) => showConfetti)
    /\ [][FinalizeStep
            => (showConfetti' /\ timers'[Len(timers')] = CONFETTI_DURATION_MS)]_vars
    /\ [][HideConfetti => ~showConfetti']_vars

====
